---- MODULE Spec2Model ----
(***************************************************************************)
(* XCER AI talking agent: the rule-based responder of agent.py, the        *)
(* completion fallback chain and bounded conversation history it is        *)
(* deployed with, and the Twilio call webhooks of main.py.                 *)
(*                                                                         *)
(* Utterances and replies are strings; Python's str methods are modelled   *)
(* by what they compute (lower, strip, split, in, startswith, endswith).   *)
(***************************************************************************)
EXTENDS Integers, Sequences, FiniteSets, TLC

VARIABLES
    call_conversations,   \* main.py: dict call_sid -> list of {user, agent}
    call_state,           \* per call_sid: what the last TwiML sent for it asks the call to do
    conversation_history, \* the shared bounded ConversationHistory
    appended,             \* history variable: turns appended since the last reset
    ai_available,         \* AgentAvailability (is_ai_available())
    request,              \* the request being answered
    response,             \* the answer the handler produced for it
    call_origin,          \* per call_sid: the webhook that started the call
    on_silence,           \* per call_sid: the verbs after Gather in the last TwiML sent for it
    twilio_configured,    \* main.py: TWILIO_AVAILABLE and twilio_client
    ready,                \* the event loop's queue of handlers ready to run
    arrived,              \* history variable: the requests in the order their handlers became ready
    awaiting              \* the handlers suspended at `await loop.run_in_executor(...)`

vars == <<call_conversations, call_state, conversation_history, appended,
          ai_available, request, response, call_origin, on_silence,
          twilio_configured, ready, arrived, awaiting>>

\* the variables of the telephony side and of the event loop
telephony ==
    <<call_origin, on_silence, twilio_configured, ready, arrived, awaiting>>

\* no call was ever started, no handler is waiting
NoCalls ==
    /\ call_origin = <<>>
    /\ on_silence = <<>>
    /\ twilio_configured = FALSE
    /\ ready = <<>>
    /\ arrived = <<>>
    /\ awaiting = <<>>

(***************************************************************************)
(* Python str operations                                                   *)
(***************************************************************************)

\* The characters a string of this module can hold are those a string literal
\* can hold: U+0001..U+00FF but the grave accent, and the characters
\* U+0100..U+FFFF whose code point ends in a byte of 0x80 or more. Every table
\* below is Python's table (Unicode 14) restricted to these characters.

Char(s, i) == SubSeq(s, i, i)

\* the characters of a string, as a set
CharsOf(s) == {Char(s, i) : i \in 1..Len(s)}

\* str.lower() of one character: each character that has a lower-case form,
\* followed by that form
CasePairs ==
    "AaBbCcDdEeFfGgHhIiJjKkLlMmNnOoPpQqRrSsTt"
    \o "UuVvWwXxYyZzÀàÁáÂâÃãÄäÅåÆæÇçÈèÉéÊêËëÌìÍí"
    \o "ÎîÏïÐðÑñÒòÓóÔôÕõÖöØøÙùÚúÛûÜüÝýÞþƂƃƄƅƇƈƋƌ"
    \o "ƎǝƑƒƘƙƠơƢƣƤƥƦʀƧƨƩʃƬƭƮʈƯưƱʊƲʋƳƴƵƶƷʒƸƹƼƽǄǆ"
    \o "ǅǆǇǉǈǉǊǌǋǌǍǎǏǐǑǒǓǔǕǖǗǘǙǚǛǜǞǟǠǡǢǣǤǥǦǧǨǩǪǫ"
    \o "ǬǭǮǯǱǳǲǳǴǵǶƕǷƿǸǹǺǻǼǽǾǿΆάΈέΉήΊίΌόΎύΏώΑαΒβ"
    \o "ΓγΔδΕεΖζΗηΘθΙιΚκΛλΜμΝνΞξΟοΠπΡρΣσΤτΥυΦφΧχ"
    \o "ΨψΩωΪϊΫϋϏϗϘϙϚϛϜϝϞϟϠϡϢϣϤϥϦϧϨϩϪϫϬϭϮϯϴθϷϸϹϲ"
    \o "ϺϻҀҁҊҋҌҍҎҏҐґҒғҔҕҖҗҘҙҚқҜҝҞҟҠҡҢңҤҥҦҧҨҩҪҫҬҭ"
    \o "ҮүҰұҲҳҴҵҶҷҸҹҺһҼҽҾҿӀӏӁӂӃӄӅӆӇӈӉӊӋӌӍӎӐӑӒӓӔӕ"
    \o "ӖӗӘәӚӛӜӝӞӟӠӡӢӣӤӥӦӧӨөӪӫӬӭӮӯӰӱӲӳӴӵӶӷӸӹӺӻӼӽ"
    \o "ӾӿᎰꮀᎱꮁᎲꮂᎳꮃᎴꮄᎵꮅᎶꮆᎷꮇᎸꮈᎹꮉᎺꮊᎻꮋᎼꮌᎽꮍᎾꮎᎿꮏᏀꮐᏁꮑᏂꮒ"
    \o "ᏃꮓᏄꮔᏅꮕᏆꮖᏇꮗᏈꮘᏉꮙᏊꮚᏋꮛᏌꮜᏍꮝᏎꮞᏏꮟᏐꮠᏑꮡᏒꮢᏓꮣᏔꮤᏕꮥᏖꮦ"
    \o "ᏗꮧᏘꮨᏙꮩᏚꮪᏛꮫᏜꮬᏝꮭᏞꮮᏟꮯᏠꮰᏡꮱᏢꮲᏣꮳᏤꮴᏥꮵᏦꮶᏧꮷᏨꮸᏩꮹᏪꮺ"
    \o "ᏫꮻᏬꮼᏭꮽᏮꮾᏯꮿᏰᏸᏱᏹᏲᏺᏳᏻᏴᏼᏵᏽᲐაᲑბᲒგᲓდᲔეᲕვᲖზᲗთᲘი"
    \o "ᲙკᲚლᲛმᲜნᲝოᲞპᲟჟᲠრᲡსᲢტᲣუᲤფᲥქᲦღᲧყᲨშᲩჩᲪცᲫძᲬწ"
    \o "ᲭჭᲮხᲯჯᲰჰᲱჱᲲჲᲳჳᲴჴᲵჵᲶჶᲷჷᲸჸᲹჹᲺჺᲽჽᲾჾᲿჿẀẁẂẃẄẅ"
    \o "ẆẇẈẉẊẋẌẍẎẏẐẑẒẓẔẕẞßẠạẢảẤấẦầẨẩẪẫẬậẮắẰằẲẳẴẵ"
    \o "ẶặẸẹẺẻẼẽẾếỀềỂểỄễỆệỈỉỊịỌọỎỏỐốỒồỔổỖỗỘộỚớỜờ"
    \o "ỞởỠỡỢợỤụỦủỨứỪừỬửỮữỰựỲỳỴỵỶỷỸỹỺỻỼỽỾỿᾈᾀᾉᾁᾊᾂ"
    \o "ᾋᾃᾌᾄᾍᾅᾎᾆᾏᾇᾘᾐᾙᾑᾚᾒᾛᾓᾜᾔᾝᾕᾞᾖᾟᾗᾨᾠᾩᾡᾪᾢᾫᾣᾬᾤᾭᾥᾮᾦ"
    \o "ᾯᾧᾸᾰᾹᾱᾼᾳῌῃῘῐῙῑῨῠῩῡῬῥῼῳↃↄⒶⓐⒷⓑⒸⓒⒹⓓⒺⓔⒻⓕⒼⓖⒽⓗ"
    \o "ⒾⓘⒿⓙⓀⓚⓁⓛⓂⓜⓃⓝⓄⓞⓅⓟⓆⓠⓇⓡⓈⓢⓉⓣⓊⓤⓋⓥⓌⓦⓍⓧⓎⓨⓏⓩⲀⲁⲂⲃ"
    \o "ⲄⲅⲆⲇⲈⲉⲊⲋⲌⲍⲎⲏⲐⲑⲒⲓⲔⲕⲖⲗⲘⲙⲚⲛⲜⲝⲞⲟⲠⲡⲢⲣⲤⲥⲦⲧⲨⲩⲪⲫ"
    \o "ⲬⲭⲮⲯⲰⲱⲲⲳⲴⲵⲶⲷⲸⲹⲺⲻⲼⲽⲾⲿⳀⳁⳂⳃⳄⳅⳆⳇⳈⳉⳊⳋⳌⳍⳎⳏⳐⳑⳒⳓ"
    \o "ⳔⳕⳖⳗⳘⳙⳚⳛⳜⳝⳞⳟⳠⳡⳢⳣⳫⳬⳭⳮⳲⳳꚀꚁꚂꚃꚄꚅꚆꚇꚈꚉꚊꚋꚌꚍꚎꚏꚐꚑ"
    \o "ꚒꚓꚔꚕꚖꚗꚘꚙꚚꚛꞀꞁꞂꞃꞄꞅꞆꞇꞋꞌꞐꞑꞒꞓꞖꞗꞘꞙꞚꞛꞜꞝꞞꞟꞠꞡꞢꞣꞤꞥ"
    \o "ꞦꞧꞨꞩꞰʞꞱʇꞲʝꞴꞵꞶꞷꞸꞹꞺꞻꞼꞽꞾꞿꟀꟁꟂꟃꟄꞔꟅʂꟆᶎꟇꟈꟉꟊꟐꟑꟖꟗ"
    \o "ꟘꟙꟵꟶ"

\* the characters whose lower-case form cannot be held by a string
\* (for instance U+0181, whose lower-case form is U+0253)
LowerUnwritable ==
    "ƁƆƉƊƏƐƓƔƖƗƜƝƟϽϾϿႠႡႢႣႤႥႦႧႨႩႪႫႬႭႮႯႰႱႲႳႴႵႶႷ"
    \o "ႸႹႺႻႼႽႾႿჀჁჂჃჄჅჇჍᎠᎡᎢᎣᎤᎥᎦᎧᎨᎩᎪᎫᎬᎭᎮᎯᾺΆῈΈῊΉῚΊ"
    \o "ῪΎῸΌῺΏꞍꞪꞫꞬꞭꞮꞳ"

\* str.lower() of one character; not defined on LowerUnwritable
LowerOf ==
    LET pairs == [k \in 1..Len(CasePairs) |-> Char(CasePairs, k)]
        n == Len(CasePairs) \div 2
    IN  [c \in {pairs[2 * k - 1] : k \in 1..n} |->
            pairs[2 * (CHOOSE k \in 1..n : pairs[2 * k - 1] = c)]]

\* the characters str.lower() changes
Lowered == DOMAIN LowerOf

Unwritable == CharsOf(LowerUnwritable)

CaseIgnorableChars ==
    "'.:^¨­¯´·¸ʰʱʲʳʴʵʶʷʸʹʺʻʼʽʾʿˀˁ˂˃˄˅ˆˇˈˉˊˋˌˍ"
    \o "ˎˏːˑ˒˓˔˕˖˗˘˙˚˛˜˝˞˟ˠˡˢˣˤ˥˦˧˨˩˪˫ˬ˭ˮ˯˰˱˲˳˴˵"
    \o "˶˷˸˹˺˻˼˽˾˿΄΅·҃҄҅҆҇҈҉֑֖֛֢֣֤֚֒֓֔֕֗֘֙֜֝֞֟֠֡"
    \o "ְֱֲֳִֵֶַָׇֹֺֻּֽֿׁׂ֥֦֧֪ׅ֭֮֨֩֫֬֯ׄ״ۖۗۘۙۚۛۜ۝"
    \o "ۣ۟۠ۡۢۤۥۦ۪ۭۧۨ۫۬ަާިީުޫެޭޮޯް߲߫߬߭߮߯߰߱߳ߴߵߺ߽࢈࢐"
    \o "࢑࢙࢚࢛࢘࢜࢝࢞࢟ࣉ࣏࣐࣑࣒࣓࣊࣋࣌࣍࣎ࣔࣕࣖࣗࣘࣙࣚࣛࣜࣝࣞࣟ࣠࣡࣢ࣣࣦࣤࣥࣧ"
    \o "ࣰࣱࣲࣩ࣭࣮࣯ࣶࣹࣺࣨ࣪࣫࣬ࣳࣴࣵࣷࣸࣻࣼࣽࣾࣿঁ়ুূৃৄ্ৢৣ৾ઁં઼ુૂૃ"
    \o "ૄૅેૈ્ૢૣૺૻૼ૽૾૿ஂீ்ಁ಼ಿೆೌ್ೢೣඁ්ිීුූັິີຶື຺ຸູົຼ"
    \o "ໆ່້໊໋໌ໍ྄ཱྀྀྂྃ྆྇ྍྎྏྐྑྒྒྷྔྕྖྗྙྚྛྜྜྷྞྟྠྡྡྷྣྤྥྦྦྷ"
    \o "ྨྩྪྫྫྷྭྮྯྰྱྲླྴྵྶྷྸྐྵྺྻྼ࿆ႂႅႆႍႝჼ឴឵ិីឹឺុូួំ៉៊"
    \o "់៌៍៎៏័៑្៓ៗ៝ᢅᢆᢩᪧ᪵᪶᪷᪸᪹᪺᪽᪰᪱᪲᪳᪴᪻᪼᪾ᪿᫀ᫃᫄᫁᫂᫅᫆᫇᫈"
    \o "᫊᫉᫋ᫌᫍᫎᮀᮁᮢᮣᮤᮥᮨᮩ᮫ᮬᮭ᯦ᯨᯩᯭᯯᯰᯱ᳔᳕᳖᳗᳘᳙᳜᳝᳞᳟᳐᳑᳒᳚᳛᳠"
    \o "᳢᳣᳤᳥᳦᳧᳨᳭᳴᳸᳹ᶛᶜᶝᶞᶟᶠᶡᶢᶣᶤᶥᶦᶧᶨᶩᶪᶫᶬᶭᶮᶯᶰᶱᶲᶳᶴᶵᶶᶷ"
    \o "ᶸᶹᶺᶻᶼᶽᶾᶿ᷐᷎᷂᷊᷏᷀᷁᷃᷄᷅᷆᷇᷈᷉᷋᷌᷑᷒ᷓᷔᷕᷖᷗᷘᷙᷚᷛᷜᷝᷞᷟ᷍"
    \o "᷺᷹᷽᷿᷷᷸ᷠᷡᷢᷣᷤᷥᷦᷧᷨᷩᷪᷫᷬᷭᷮᷯᷰᷱᷲᷳᷴ᷵᷻᷾᷶᷼᾽᾿῀῁῍῎῏῝"
    \o "῞῟῭΅`´῾ₐₑₒₓₔₕₖₗₘₙₚₛₜ⃒⃓⃘⃙⃚⃐⃑⃔⃕⃖⃗⃛⃜⃝⃞⃟⃠⃡⃢⃣"
    \o "⃤⃥⃦⃪⃫⃨⃬⃭⃮⃯⃧⃩⃰⳯⳰⳱ⷠⷡⷢⷣⷤⷥⷦⷧⷨⷩⷪⷫⷬⷭⷮⷯⷰⷱⷲⷳⷴⷵⷶⷷ"
    \o "゙゚ⷸⷹⷺⷻⷼⷽⷾⷿ゛゜ゝゞーヽヾꓸꓹꓺꓻꓼꓽꚜꚝꚞꚟ꛰꛱ꞈ꞉꞊ꟲꟳꟴꟸꟹ꣄ꣅ꣠"
    \o "꣡꣢꣣꣤꣥꣦꣧꣨꣩꣪꣫꣬꣭꣮꣯꣰꣱ꣿꦀꦁꦂ꦳ꦶꦷꦸꦹꦼꦽꧏꧥꧦꪴꪰꪲꪳꪷꪸꪾ꪿꫁"
    \o "ꫝꫬꫭꫳꫴ꫶ꯥꯨ꯭﮲﮳﮴﮵﮶﮷﮸﮹﮺﮻﮼﮽﮾﮿﯀﯁﯂﻿ﾞﾟ￣￹￺￻"

\* _PyUnicode_IsCaseIgnorable
CaseIgnorable == CharsOf(CaseIgnorableChars)

CasedChars ==
    "ABCDEFGHIJKLMNOPQRSTUVWXYZabcdefghijklmn"
    \o "opqrstuvwxyzªµºÀÁÂÃÄÅÆÇÈÉÊËÌÍÎÏÐÑÒÓÔÕÖØÙ"
    \o "ÚÛÜÝÞßàáâãäåæçèéêëìíîïðñòóôõöøùúûüýþÿƀƁƂ"
    \o "ƃƄƅƆƇƈƉƊƋƌƍƎƏƐƑƒƓƔƕƖƗƘƙƚƛƜƝƞƟƠơƢƣƤƥƦƧƨƩƪ"
    \o "ƫƬƭƮƯưƱƲƳƴƵƶƷƸƹƺƼƽƾƿǄǅǆǇǈǉǊǋǌǍǎǏǐǑǒǓǔǕǖǗ"
    \o "ǘǙǚǛǜǝǞǟǠǡǢǣǤǥǦǧǨǩǪǫǬǭǮǯǰǱǲǳǴǵǶǷǸǹǺǻǼǽǾǿ"
    \o "ʀʁʂʃʄʅʆʇʈʉʊʋʌʍʎʏʐʑʒʓʕʖʗʘʙʚʛʜʝʞʟʠʡʢʣʤʥʦʧʨ"
    \o "ʩʪʫʬʭʮʯΆΈΉΊΌΎΏΐΑΒΓΔΕΖΗΘΙΚΛΜΝΞΟΠΡΣΤΥΦΧΨΩΪ"
    \o "ΫάέήίΰαβγδεζηθικλμνξοπρςστυφχψωϊϋόύώϏϐϑϒ"
    \o "ϓϔϕϖϗϘϙϚϛϜϝϞϟϠϡϢϣϤϥϦϧϨϩϪϫϬϭϮϯϰϱϲϳϴϵϷϸϹϺϻ"
    \o "ϼϽϾϿҀҁҊҋҌҍҎҏҐґҒғҔҕҖҗҘҙҚқҜҝҞҟҠҡҢңҤҥҦҧҨҩҪҫ"
    \o "ҬҭҮүҰұҲҳҴҵҶҷҸҹҺһҼҽҾҿӀӁӂӃӄӅӆӇӈӉӊӋӌӍӎӏӐӑӒӓ"
    \o "ӔӕӖӗӘәӚӛӜӝӞӟӠӡӢӣӤӥӦӧӨөӪӫӬӭӮӯӰӱӲӳӴӵӶӷӸӹӺӻ"
    \o "ӼӽӾӿրցւփքօֆևֈႠႡႢႣႤႥႦႧႨႩႪႫႬႭႮႯႰႱႲႳႴႵႶႷႸႹႺ"
    \o "ႻႼႽႾႿჀჁჂჃჄჅჇჍაბგდევზთიკლმნოპჟრსტუფქღყშჩც"
    \o "ძწჭხჯჰჱჲჳჴჵჶჷჸჹჺჽჾჿᎠᎡᎢᎣᎤᎥᎦᎧᎨᎩᎪᎫᎬᎭᎮᎯᎰᎱᎲᎳᎴ"
    \o "ᎵᎶᎷᎸᎹᎺᎻᎼᎽᎾᎿᏀᏁᏂᏃᏄᏅᏆᏇᏈᏉᏊᏋᏌᏍᏎᏏᏐᏑᏒᏓᏔᏕᏖᏗᏘᏙᏚᏛᏜ"
    \o "ᏝᏞᏟᏠᏡᏢᏣᏤᏥᏦᏧᏨᏩᏪᏫᏬᏭᏮᏯᏰᏱᏲᏳᏴᏵᏸᏹᏺᏻᏼᏽᲀᲁᲂᲃᲄᲅᲆᲇᲈ"
    \o "ᲐᲑᲒᲓᲔᲕᲖᲗᲘᲙᲚᲛᲜᲝᲞᲟᲠᲡᲢᲣᲤᲥᲦᲧᲨᲩᲪᲫᲬᲭᲮᲯᲰᲱᲲᲳᲴᲵᲶᲷ"
    \o "ᲸᲹᲺᲽᲾᲿᶀᶁᶂᶃᶄᶅᶆᶇᶈᶉᶊᶋᶌᶍᶎᶏᶐᶑᶒᶓᶔᶕᶖᶗᶘᶙᶚẀẁẂẃẄẅẆ"
    \o "ẇẈẉẊẋẌẍẎẏẐẑẒẓẔẕẖẗẘẙẚẛẜẝẞẟẠạẢảẤấẦầẨẩẪẫẬậẮ"
    \o "ắẰằẲẳẴẵẶặẸẹẺẻẼẽẾếỀềỂểỄễỆệỈỉỊịỌọỎỏỐốỒồỔổỖ"
    \o "ỗỘộỚớỜờỞởỠỡỢợỤụỦủỨứỪừỬửỮữỰựỲỳỴỵỶỷỸỹỺỻỼỽỾ"
    \o "ỿᾀᾁᾂᾃᾄᾅᾆᾇᾈᾉᾊᾋᾌᾍᾎᾏᾐᾑᾒᾓᾔᾕᾖᾗᾘᾙᾚᾛᾜᾝᾞᾟᾠᾡᾢᾣᾤᾥᾦ"
    \o "ᾧᾨᾩᾪᾫᾬᾭᾮᾯᾰᾱᾲᾳᾴᾶᾷᾸᾹᾺΆᾼιῂῃῄῆῇῈΈῊΉῌῐῑῒΐῖῗῘῙ"
    \o "ῚΊῠῡῢΰῤῥῦῧῨῩῪΎῬῲῳῴῶῷῸΌῺΏῼↃↄⒶⒷⒸⒹⒺⒻⒼⒽⒾⒿⓀⓁⓂ"
    \o "ⓃⓄⓅⓆⓇⓈⓉⓊⓋⓌⓍⓎⓏⓐⓑⓒⓓⓔⓕⓖⓗⓘⓙⓚⓛⓜⓝⓞⓟⓠⓡⓢⓣⓤⓥⓦⓧⓨⓩⲀ"
    \o "ⲁⲂⲃⲄⲅⲆⲇⲈⲉⲊⲋⲌⲍⲎⲏⲐⲑⲒⲓⲔⲕⲖⲗⲘⲙⲚⲛⲜⲝⲞⲟⲠⲡⲢⲣⲤⲥⲦⲧⲨ"
    \o "ⲩⲪⲫⲬⲭⲮⲯⲰⲱⲲⲳⲴⲵⲶⲷⲸⲹⲺⲻⲼⲽⲾⲿⳀⳁⳂⳃⳄⳅⳆⳇⳈⳉⳊⳋⳌⳍⳎⳏⳐ"
    \o "ⳑⳒⳓⳔⳕⳖⳗⳘⳙⳚⳛⳜⳝⳞⳟⳠⳡⳢⳣⳤⳫⳬⳭⳮⳲⳳꚀꚁꚂꚃꚄꚅꚆꚇꚈꚉꚊꚋꚌꚍ"
    \o "ꚎꚏꚐꚑꚒꚓꚔꚕꚖꚗꚘꚙꚚꚛꞀꞁꞂꞃꞄꞅꞆꞇꞋꞌꞍꞎꞐꞑꞒꞓꞔꞕꞖꞗꞘꞙꞚꞛꞜꞝ"
    \o "ꞞꞟꞠꞡꞢꞣꞤꞥꞦꞧꞨꞩꞪꞫꞬꞭꞮꞯꞰꞱꞲꞳꞴꞵꞶꞷꞸꞹꞺꞻꞼꞽꞾꞿꟀꟁꟂꟃꟄꟅ"
    \o "ꟆꟇꟈꟉꟊꟐꟑꟓꟕꟖꟗꟘꟙꟵꟶꟺꮀꮁꮂꮃꮄꮅꮆꮇꮈꮉꮊꮋꮌꮍꮎꮏꮐꮑꮒꮓꮔꮕꮖꮗ"
    \o "ꮘꮙꮚꮛꮜꮝꮞꮟꮠꮡꮢꮣꮤꮥꮦꮧꮨꮩꮪꮫꮬꮭꮮꮯꮰꮱꮲꮳꮴꮵꮶꮷꮸꮹꮺꮻꮼꮽꮾꮿ"

\* _PyUnicode_IsCased, on the characters that are not case-ignorable
Cased == CharsOf(CasedChars)

\* handle_capital_sigma: a capital sigma lowers to the final sigma when the
\* nearest character before it that is not case-ignorable is cased and the
\* nearest such character after it, if any, is not
final_sigma(s, i) ==
    LET before == {j \in 1..(i - 1) : Char(s, j) \notin CaseIgnorable}
        after == {j \in (i + 1)..Len(s) : Char(s, j) \notin CaseIgnorable}
        last == CHOOSE j \in before : \A k \in before : k <= j
        first == CHOOSE j \in after : \A k \in after : j <= k
    IN  /\ before # {}
        /\ Char(s, last) \in Cased
        /\ after # {} => Char(s, first) \notin Cased

\* the lower-case form of the character at position i of s
lower_char(s, i) ==
    LET c == Char(s, i)
    IN  IF c = "Σ" THEN (IF final_sigma(s, i) THEN "ς" ELSE "σ")
        ELSE IF c \in Lowered \/ c \in Unwritable THEN LowerOf[c]
        ELSE c

\* str.lower()
lower(s) ==
    LET RECURSIVE from(_)
        from(i) == IF i > Len(s) THEN "" ELSE lower_char(s, i) \o from(i + 1)
    IN  from(1)

\* str.isspace(): the characters str.strip() and str.split() treat as whitespace
Whitespace ==
    {" ", "\t", "\n", "\r", "\f", "", "", "", "", "", "", " ", " "}

RECURSIVE lstrip(_)
lstrip(s) ==
    IF s # "" /\ Head(s) \in Whitespace THEN lstrip(Tail(s)) ELSE s

RECURSIVE rstrip(_)
rstrip(s) ==
    IF s # "" /\ Char(s, Len(s)) \in Whitespace
    THEN rstrip(SubSeq(s, 1, Len(s) - 1))
    ELSE s

\* a strip that removes blanks only, not tabs or newlines
strip_blanks_only(s) ==
    LET RECURSIVE l(_)
        l(t) == IF t # "" /\ Head(t) = " " THEN l(Tail(t)) ELSE t
        RECURSIVE r(_)
        r(t) == IF t # "" /\ Char(t, Len(t)) = " "
                THEN r(SubSeq(t, 1, Len(t) - 1)) ELSE t
    IN  r(l(s))

\* str.strip()
strip(s) == rstrip(lstrip(s))

\* str.split(): the maximal runs of non-whitespace characters, in order
RECURSIVE split(_)
split(s) ==
    LET t == lstrip(s)
        stops == {i \in 1..Len(t) : Char(t, i) \in Whitespace}
        n == IF stops = {} THEN Len(t) + 1
             ELSE CHOOSE i \in stops : \A j \in stops : i <= j
    IN  IF t = "" THEN <<>>
        ELSE <<SubSeq(t, 1, n - 1)>> \o split(SubSeq(t, n, Len(t)))

\* `w in s` for strings
contains(s, w) ==
    \E i \in 1..(Len(s) - Len(w) + 1) : SubSeq(s, i, i + Len(w) - 1) = w

\* any(word in s for word in words)
any_in(words, s) == \E w \in words : contains(s, w)

startswith(s, w) == Len(s) >= Len(w) /\ SubSeq(s, 1, Len(w)) = w

endswith(s, w) == Len(s) >= Len(w) /\ SubSeq(s, Len(s) - Len(w) + 1, Len(s)) = w

\* random.choice(options), the draw given as a number
choice(options, rnd) == options[(rnd % Len(options)) + 1]

(***************************************************************************)
(* agent.py: get_response, the rule cascade                                *)
(***************************************************************************)

Intents ==
    {"Greeting", "Identity", "Time", "Date", "Wellbeing", "Weather", "Joke",
     "Help", "Thanks", "Farewell", "LifeMeaning", "Compliment", "QuestionWhat",
     "QuestionHow", "QuestionWhy", "QuestionWhen", "QuestionWhere",
     "QuestionWho", "GenericQuestion", "Fallback"}

\* the draws random.choice can be given: the longest variant list has 6 entries
RandomDraws == 0..5

\* the guard of the empty-input branch, without the strip
no_input_unstripped(user_text) == user_text = ""

\* the guard of the empty-input branch, stripping blanks only
no_input_blanks_only(user_text) == strip_blanks_only(user_text) = ""

\* line 84: user_text.strip() == ""
no_input(user_text) == strip(user_text) = ""

\* line 87: user_text.lower().strip()
normalize(user_text) == strip(lower(user_text))

is_greeting(s) == any_in({"hello", "hi", "hey", "greetings", "sup"}, s)

is_identity(s) ==
    any_in({"who are you", "your name", "what are you", "what is your name"}, s)

\* the time rule without its guard against "sometimes"
is_time_unguarded(s) == contains(s, "time")

is_time(s) == contains(s, "time") /\ ~ contains(s, "sometimes")

is_date(s) == any_in({"date", "today", "what day"}, s)

is_wellbeing(s) == contains(s, "how are you") \/ contains(s, "how do you feel")

is_weather(s) == contains(s, "weather") \/ contains(s, "temperature")

is_joke(s) ==
    contains(s, "joke") \/ contains(s, "funny") \/ contains(s, "make me laugh")

is_help(s) ==
    contains(s, "help") \/ contains(s, "what can you do")
        \/ contains(s, "capabilities")

is_thanks(s) == any_in({"thank", "thanks", "thankyou", "appreciate"}, s)

is_farewell(s) ==
    any_in({"bye", "goodbye", "quit", "exit", "see you", "farewell"}, s)

\* `a or b and c` binds as `a or (b and c)`
is_life_meaning(s) ==
    contains(s, "meaning of life")
        \/ (contains(s, "life") /\ contains(s, "meaning"))

is_compliment(s) ==
    any_in({"smart", "intelligent", "clever", "awesome", "great", "amazing"}, s)

\* the cascade with the question prefixes tried before the wellbeing rule
Classify_prefix_first(s) ==
    IF is_greeting(s) THEN "Greeting"
    ELSE IF is_identity(s) THEN "Identity"
    ELSE IF is_time(s) THEN "Time"
    ELSE IF is_date(s) THEN "Date"
    ELSE IF startswith(s, "what") THEN "QuestionWhat"
    ELSE IF startswith(s, "how") THEN "QuestionHow"
    ELSE IF is_wellbeing(s) THEN "Wellbeing"
    ELSE IF is_weather(s) THEN "Weather"
    ELSE IF is_joke(s) THEN "Joke"
    ELSE IF is_help(s) THEN "Help"
    ELSE IF is_thanks(s) THEN "Thanks"
    ELSE IF is_farewell(s) THEN "Farewell"
    ELSE IF is_life_meaning(s) THEN "LifeMeaning"
    ELSE IF is_compliment(s) THEN "Compliment"
    ELSE IF startswith(s, "why") THEN "QuestionWhy"
    ELSE IF startswith(s, "when") THEN "QuestionWhen"
    ELSE IF startswith(s, "where") THEN "QuestionWhere"
    ELSE IF startswith(s, "who") THEN "QuestionWho"
    ELSE IF endswith(s, "?") THEN "GenericQuestion"
    ELSE "Fallback"

\* the cascade without its greeting rule
Classify_no_greeting(s) ==
    IF is_identity(s) THEN "Identity"
    ELSE IF is_time(s) THEN "Time"
    ELSE IF is_date(s) THEN "Date"
    ELSE IF is_wellbeing(s) THEN "Wellbeing"
    ELSE IF is_weather(s) THEN "Weather"
    ELSE IF is_joke(s) THEN "Joke"
    ELSE IF is_help(s) THEN "Help"
    ELSE IF is_thanks(s) THEN "Thanks"
    ELSE IF is_farewell(s) THEN "Farewell"
    ELSE IF is_life_meaning(s) THEN "LifeMeaning"
    ELSE IF is_compliment(s) THEN "Compliment"
    ELSE IF startswith(s, "what") THEN "QuestionWhat"
    ELSE IF startswith(s, "how") THEN "QuestionHow"
    ELSE IF startswith(s, "why") THEN "QuestionWhy"
    ELSE IF startswith(s, "when") THEN "QuestionWhen"
    ELSE IF startswith(s, "where") THEN "QuestionWhere"
    ELSE IF startswith(s, "who") THEN "QuestionWho"
    ELSE IF endswith(s, "?") THEN "GenericQuestion"
    ELSE "Fallback"

\* lines 89-228: which branch of the if/elif cascade is taken for user_lower
Classify(s) ==
    IF is_greeting(s) THEN "Greeting"
    ELSE IF is_identity(s) THEN "Identity"
    ELSE IF is_time(s) THEN "Time"
    ELSE IF is_date(s) THEN "Date"
    ELSE IF is_wellbeing(s) THEN "Wellbeing"
    ELSE IF is_weather(s) THEN "Weather"
    ELSE IF is_joke(s) THEN "Joke"
    ELSE IF is_help(s) THEN "Help"
    ELSE IF is_thanks(s) THEN "Thanks"
    ELSE IF is_farewell(s) THEN "Farewell"
    ELSE IF is_life_meaning(s) THEN "LifeMeaning"
    ELSE IF is_compliment(s) THEN "Compliment"
    ELSE IF startswith(s, "what") THEN "QuestionWhat"
    ELSE IF startswith(s, "how") THEN "QuestionHow"
    ELSE IF startswith(s, "why") THEN "QuestionWhy"
    ELSE IF startswith(s, "when") THEN "QuestionWhen"
    ELSE IF startswith(s, "where") THEN "QuestionWhere"
    ELSE IF startswith(s, "who") THEN "QuestionWho"
    ELSE IF endswith(s, "?") THEN "GenericQuestion"
    ELSE "Fallback"

(***************************************************************************)
(* agent.py: get_response, the reply of each branch                        *)
(***************************************************************************)

NoInputReply == "I didn't catch that. Could you please repeat?"

GreetingReplies ==
    <<"Hello! How can I help you today?",
      "Hi there! What can I do for you?",
      "Hey! It's great to talk to you!",
      "Greetings! How's your day going?">>

IdentityReply ==
    "I'm an AI talking agent designed to have conversations with you. I can listen, understand, and respond to your questions!"

WellbeingReplies ==
    <<"I'm doing great! Thanks for asking. How about you?",
      "I'm feeling wonderful! Ready to help you with anything.",
      "Excellent! I'm here and ready to assist you.">>

WeatherReply ==
    "I can help with weather information. Please tell me which city you'd like to know about."

JokeReplies ==
    <<"Why don't scientists trust atoms? Because they make up everything!",
      "What do you call a fake noodle? An impasta!",
      "Why did the scarecrow win an award? He was outstanding in his field!",
      "What did the ocean say to the beach? Nothing, it just waved!",
      "Why don't eggs tell jokes? They'd crack each other up!">>

HelpReply ==
    "I can help you with many things! You can ask me:\n"
    \o "- What time/date it is\n"
    \o "- For jokes or funny stories\n"
    \o "- General questions and conversations\n"
    \o "- About the weather\n"
    \o "- Anything you'd like to talk about!"

ThanksReplies ==
    <<"You're welcome! Happy to help!",
      "My pleasure! Anything else you need?",
      "No problem at all! Ask me anything!">>

FarewellReply == "Goodbye! It was nice talking to you. Have a wonderful day!"

LifeMeaningReply ==
    "The meaning of life is subjective - it's different for everyone! It could be happiness, helping others, learning, or pursuing your passions. What gives your life meaning?"

ComplimentReply ==
    "Thank you! I appreciate that. I'm here to be helpful and have meaningful conversations with you."

\* lines 174-180
WhatReply(s) ==
    IF contains(s, "weather")
    THEN "I don't have real-time weather data, but you can check your local weather service for accurate information."
    ELSE IF contains(s, "this is") \/ contains(s, "that is")
    THEN "That's an interesting question! Could you tell me more about it?"
    ELSE "That's a great question! I'm curious to know more. Can you provide some context?"

\* lines 182-188
HowReply(s) ==
    IF contains(s, "are you")
    THEN "I'm doing well, thank you for asking! How are you doing?"
    ELSE IF contains(s, "do") \/ contains(s, "does")
    THEN "That's a practical question! I can help guide you through it if you give me more details."
    ELSE "That's an interesting question. Tell me more and I'll do my best to help!"

WhyReply ==
    "That's a thought-provoking question! Different perspectives exist on this topic. What's your take on it?"

WhenReply ==
    "Timing can be important! Could you provide more context about what you're asking?"

WhereReply ==
    "Location matters! Tell me more and I can try to help you figure it out."

WhoReply ==
    "That's an interesting question about people. I'd love to help if you give me more details!"

GenericQuestionReplies ==
    <<"That's an interesting question! I think it depends on the context. What do you think?",
      "That's worth thinking about. It really varies from person to person.",
      "Great question! I'm interested in your perspective on this.",
      "That's something many people wonder about. What's your opinion?">>

\* lines 218-225, keywords being user_lower.split(), a non-empty list
FallbackReplies(keywords) ==
    <<"That's interesting what you said about " \o keywords[1] \o "! Tell me more!",
      "I find that topic fascinating! Can you elaborate?",
      "That's a great point! What made you think about this?",
      "I'd like to understand more about what you mean. Can you explain further?",
      "Interesting perspective! Tell me more about your thoughts on this.",
      "That sounds important to you. Why is this topic interesting to you?">>

\* what get_response hands back: a reply, or the exception it raises
Returned(intent, reply) == [raised |-> "", intent |-> intent, reply |-> reply]
Raised(intent, exc) == [raised |-> exc, intent |-> intent, reply |-> ""]

\* the body of the branch the cascade selected; now is the formatted wall clock
Generate(intent, s, rnd, now) ==
    CASE intent = "Greeting" -> Returned(intent, choice(GreetingReplies, rnd))
      [] intent = "Identity" -> Returned(intent, IdentityReply)
      [] intent = "Time" ->
            Returned(intent, "The current time is " \o now.time \o ".")
      [] intent = "Date" -> Returned(intent, "Today is " \o now.date \o ".")
      [] intent = "Wellbeing" -> Returned(intent, choice(WellbeingReplies, rnd))
      [] intent = "Weather" -> Returned(intent, WeatherReply)
      [] intent = "Joke" -> Returned(intent, choice(JokeReplies, rnd))
      [] intent = "Help" -> Returned(intent, HelpReply)
      [] intent = "Thanks" -> Returned(intent, choice(ThanksReplies, rnd))
      [] intent = "Farewell" -> Returned(intent, FarewellReply)
      [] intent = "LifeMeaning" -> Returned(intent, LifeMeaningReply)
      [] intent = "Compliment" -> Returned(intent, ComplimentReply)
      [] intent = "QuestionWhat" -> Returned(intent, WhatReply(s))
      [] intent = "QuestionHow" -> Returned(intent, HowReply(s))
      [] intent = "QuestionWhy" -> Returned(intent, WhyReply)
      [] intent = "QuestionWhen" -> Returned(intent, WhenReply)
      [] intent = "QuestionWhere" -> Returned(intent, WhereReply)
      [] intent = "QuestionWho" -> Returned(intent, WhoReply)
      [] intent = "GenericQuestion" ->
            Returned(intent, choice(GenericQuestionReplies, rnd))
      [] OTHER ->
            \* keywords[0] of an empty list raises IndexError
            IF split(s) = <<>> THEN Raised(intent, "IndexError")
            ELSE Returned(intent, choice(FallbackReplies(split(s)), rnd))

\* lines 74-228
get_response(user_text, rnd, now) ==
    IF no_input(user_text) THEN Returned("None", NoInputReply)
    ELSE Generate(Classify(normalize(user_text)), normalize(user_text), rnd, now)

(***************************************************************************)
(* The conversation store and the completion fallback chain that           *)
(* main.py imports next to get_response (reset_conversation,               *)
(* is_ai_available): spec sections 4.3 and 4.4.                            *)
(***************************************************************************)

\* the cap on the turns the history keeps
HistoryCap == 10

Turn(role, content) == [role |-> role, content |-> content]

\* an append that keeps the oldest turns when the cap is exceeded
HistoryAppend_keep_oldest(history, turn) ==
    IF Len(history) >= HistoryCap THEN history ELSE Append(history, turn)

\* Append: evict from the front until the new turn fits, then append
HistoryAppend(history, turn) ==
    LET RECURSIVE evict(_)
        evict(h) == IF Len(h) + 1 > HistoryCap THEN evict(Tail(h)) ELSE h
    IN  Append(evict(history), turn)

\* Reset, and reset_conversation()
HistoryReset == <<>>

\* the formatted wall clock a request can be answered at
Clocks ==
    {[time |-> "09:05 AM", date |-> "Thursday, October 29, 2026"],
     [time |-> "11:59 PM", date |-> "Saturday, October 31, 2026"]}

\* how a call of the remote completion collaborator can end
CompletionFailures == {"timeout", "malformed", "error", "unavailable"}
CompletionOutcomes == {"ok"} \cup CompletionFailures

\* a text the remote completion returns
CompletionText == "Sure, I can help with that."

TroubleReply == "I'm having trouble connecting to AI. Please try again."

\* what one Respond did: the reply, the branch the rule cascade took ("None"
\* when it did not run), the exception the rule path raised ("" when none),
\* how the completion call ended, and the turns put into the history
Outcome(reply, intent, raised, completion, added) ==
    [reply |-> reply, intent |-> intent, raised |-> raised,
     completion |-> completion, added |-> added]

\* step 3 and 4 of the chain: the rule-based reply, the fixed string if that fails
RuleBased(user_text, rnd, now, completion, added) ==
    LET g == get_response(user_text, rnd, now)
    IN  IF g.raised # ""
        THEN Outcome(TroubleReply, g.intent, g.raised, completion, added)
        ELSE Outcome(g.reply, g.intent, "", completion, added)

\* Respond(utterance), the completion ending as `result` if it is invoked
Respond(user_text, rnd, now, result, available) ==
    IF no_input(user_text)
    THEN Outcome(get_response(user_text, rnd, now).reply, "None", "",
                 "not invoked", <<>>)
    ELSE IF available
    THEN IF result = "ok"
         THEN Outcome(CompletionText, "None", "", "ok",
                      <<Turn("User", user_text), Turn("Agent", CompletionText)>>)
         ELSE RuleBased(user_text, rnd, now, result, <<Turn("User", user_text)>>)
    ELSE RuleBased(user_text, rnd, now, "not invoked", <<>>)

\* every way Respond(user_text) can end: one per random draw, clock and
\* completion outcome
RespondResults(user_text, available) ==
    {Respond(user_text, rnd, now, result, available) :
        rnd \in RandomDraws, now \in Clocks, result \in CompletionOutcomes}

RECURSIVE AppendAll(_, _)
AppendAll(history, turns) ==
    IF turns = <<>> THEN history
    ELSE AppendAll(HistoryAppend(history, Head(turns)), Tail(turns))

(***************************************************************************)
(* Requests and answers                                                    *)
(***************************************************************************)

Request(handler, call_sid, text, is_text) ==
    [handler |-> handler, call_sid |-> call_sid, text |-> text,
     is_text |-> is_text]

NoRequest == Request("none", "", "", TRUE)

Answer(status, twiml, out) ==
    [status |-> status, twiml |-> twiml, reply |-> out.reply,
     intent |-> out.intent, raised |-> out.raised,
     completion |-> out.completion]

NoOutcome == Outcome("", "None", "", "not invoked", <<>>)

NoAnswer == Answer(0, <<>>, NoOutcome)

(***************************************************************************)
(* Respond on its own: one utterance, answered again and again under       *)
(* every draw, clock, availability and completion outcome.                 *)
(***************************************************************************)

\* the most turns of shared history a run builds up between two resets
MaxChat == 3

Utterances ==
    {"", " ", "\t", " \n ", "hello", "HELLO", "Hello there", "this time",
     "what is this", "who are you", "What is your name", "what time is it",
     "Time flies",
     "what's your favorite time to reminisce, sometimes I wonder",
     "Sometimes I wonder", "what day is it", "how are you",
     "How are you doing", "how are you today", "how do you feel",
     "what is the weather", "tell me a joke", "help", "thanks",
     "I appreciate it", "goodbye", "bye", "quit", "exit", "hang up",
     "see you", "meaning of life", "life has meaning", "you are smart",
     "what now", "what that is", "how do magnets work", "how old are you",
     "how so", "why not", "when do we start", "where am I", "who won",
     "really?", "ok", "  ok then ", "\tquit\n", "whatever", "?",
     "\f", " ", "HELLO THERE", "quit ", "ÉCOLE", "ΟΔΟΣ"}

InitRespond ==
    /\ call_conversations = <<>>
    /\ call_state = <<>>
    /\ conversation_history = <<>>
    /\ appended = <<>>
    /\ ai_available \in BOOLEAN
    /\ request \in {Request("none", "", u, TRUE) : u \in Utterances}
    /\ response = NoAnswer
    /\ NoCalls

\* Respond on every utterance of the corpus
UtteranceResults ==
    [u \in Utterances, available \in BOOLEAN |-> RespondResults(u, available)]

\* one call Respond(request.text)
RespondCall ==
    /\ Len(conversation_history) < MaxChat
    /\ \E out \in UtteranceResults[request.text, ai_available] :
         /\ request' = Request("Respond", "", request.text, TRUE)
         /\ response' = Answer(200, <<>>, out)
         /\ conversation_history' = AppendAll(conversation_history, out.added)
         /\ appended' = appended \o out.added
    /\ UNCHANGED <<call_conversations, call_state, ai_available, telephony>>

NextRespond == RespondCall

SpecRespond == InitRespond /\ [][NextRespond]_vars

\* the request was answered by Respond
Responded == request.handler = "Respond"

(***************************************************************************)
(* Properties of Respond, get_response and the rule cascade                *)
(***************************************************************************)

\* the utterance is empty or whitespace only
IsBlank(u) == \A i \in 1..Len(u) : Char(u, i) \in Whitespace

\* the rule cascade ran for the request
CascadeRan == Responded /\ response.intent # "None"

Range(f) == {f[i] : i \in DOMAIN f}

\* the replies an intent's branch may give for the normalized utterance s
Variants(intent, s) ==
    CASE intent = "Greeting" -> Range(GreetingReplies)
      [] intent = "Identity" -> {IdentityReply}
      [] intent = "Time" ->
            {"The current time is " \o n.time \o "." : n \in Clocks}
      [] intent = "Date" -> {"Today is " \o n.date \o "." : n \in Clocks}
      [] intent = "Wellbeing" -> Range(WellbeingReplies)
      [] intent = "Weather" -> {WeatherReply}
      [] intent = "Joke" -> Range(JokeReplies)
      [] intent = "Help" -> {HelpReply}
      [] intent = "Thanks" -> Range(ThanksReplies)
      [] intent = "Farewell" -> {FarewellReply}
      [] intent = "LifeMeaning" -> {LifeMeaningReply}
      [] intent = "Compliment" -> {ComplimentReply}
      [] intent = "QuestionWhat" -> {WhatReply(s)}
      [] intent = "QuestionHow" -> {HowReply(s)}
      [] intent = "QuestionWhy" -> {WhyReply}
      [] intent = "QuestionWhen" -> {WhenReply}
      [] intent = "QuestionWhere" -> {WhereReply}
      [] intent = "QuestionWho" -> {WhoReply}
      [] intent = "GenericQuestion" -> Range(GenericQuestionReplies)
      [] intent = "Fallback" ->
            IF split(s) = <<>> THEN {} ELSE Range(FallbackReplies(split(s)))
      [] OTHER -> {}

\* C4: an empty or whitespace-only utterance is answered with exactly the
\* fixed "I didn't catch that" string, whatever AgentAvailability is, with
\* nothing appended to the history, the completion collaborator not invoked
\* and the utterance not classified.
C4_EmptyUtterance ==
    (Responded /\ IsBlank(request.text)) =>
        /\ response.reply = "I didn't catch that. Could you please repeat?"
        /\ response.completion = "not invoked"
        /\ response.intent = "None"
        /\ response.raised = ""
        /\ conversation_history = <<>>
        /\ appended = <<>>

C4_Witness ==
    /\ Responded
    /\ request.text = " \n "
    /\ ai_available
    /\ response.reply = NoInputReply

\* C5: with AgentAvailability false Respond never invokes the completion
\* collaborator, and its reply is one of the replies of the intent the rule
\* cascade selects; Respond("hello") is one of the four Greeting variants.
C5_Unavailable ==
    (Responded /\ ~ ai_available) =>
        /\ response.completion = "not invoked"
        /\ conversation_history = <<>>
        /\ ~ IsBlank(request.text) =>
              /\ response.intent \in Intents
              /\ response.reply
                    \in Variants(response.intent, strip(lower(request.text)))
        /\ request.text = "hello" =>
              /\ response.intent = "Greeting"
              /\ response.reply \in
                    {"Hello! How can I help you today?",
                     "Hi there! What can I do for you?",
                     "Hey! It's great to talk to you!",
                     "Greetings! How's your day going?"}

C5_Witness ==
    /\ Responded
    /\ ~ ai_available
    /\ request.text = "hello"
    /\ response.reply = "Hey! It's great to talk to you!"

\* C6: Respond always returns a string, whatever the completion call does;
\* when the completion call fails the reply is the rule-based one: the rule
\* path raises nothing and gives a reply of the intent it selected.
C6_NeverFails ==
    Responded =>
        /\ response.status = 200
        /\ response.reply # ""
        /\ response.completion \in CompletionFailures =>
              /\ response.raised = ""
              /\ response.intent \in Intents
              /\ response.reply
                    \in Variants(response.intent, strip(lower(request.text)))

C6_Witness ==
    /\ Responded
    /\ ai_available
    /\ response.completion = "timeout"
    /\ request.text = "tell me a joke"
    /\ response.reply \in Range(JokeReplies)

\* C7: the rule cascade is total and deterministic: no utterance makes it
\* raise (the Fallback branch always finds a first token), every utterance
\* that is not blank gets an intent when the cascade runs, and two
\* evaluations of the same utterance select the same intent whatever the
\* random draw, the clock and the completion outcome were.
C7_TotalDeterministic ==
    /\ [](Responded =>
            /\ response.raised = ""
            /\ (~ IsBlank(request.text) /\ response.completion # "ok")
                  => response.intent \in Intents)
    /\ [][(CascadeRan /\ CascadeRan' /\ request'.text = request.text)
            => response'.intent = response.intent]_vars

C7_Witness ==
    /\ Responded
    /\ request.text = "ok"
    /\ response.intent = "Fallback"
    /\ response.reply = "That's interesting what you said about ok! Tell me more!"

\* the lowercased utterance contains w
Mentions(u, w) == contains(lower(u), w)

SpecExampleSometimes ==
    "what's your favorite time to reminisce, sometimes I wonder"

QuestionPrefixIntents ==
    {"QuestionWhat", "QuestionHow", "QuestionWhy", "QuestionWhen",
     "QuestionWhere", "QuestionWho"}

\* C8: an utterance containing "sometimes" is never classified as Time; one
\* containing "time" but not "sometimes", and no Greeting or Identity
\* keyword, is Time; "what time is it" is Time and the spec's "sometimes"
\* example lands in a question-prefix or fallback branch.
C8_TimeRule ==
    CascadeRan =>
        /\ Mentions(request.text, "sometimes") => response.intent # "Time"
        /\ ( /\ Mentions(request.text, "time")
             /\ ~ Mentions(request.text, "sometimes")
             /\ \A w \in {"hello", "hi", "hey", "greetings", "sup",
                          "who are you", "your name", "what are you"} :
                    ~ Mentions(request.text, w) )
              => response.intent = "Time"
        /\ request.text = "what time is it" => response.intent = "Time"
        /\ request.text = SpecExampleSometimes
              => response.intent \in QuestionPrefixIntents \cup {"Fallback"}

C8_Witness ==
    /\ CascadeRan
    /\ request.text = SpecExampleSometimes
    /\ response.intent = "QuestionWhat"

\* the rules of section 4.1 in their order, one entry per intent
RuleOrder ==
    <<"Greeting", "Identity", "Time", "Date", "Wellbeing", "Weather", "Joke",
      "Help", "Thanks", "Farewell", "LifeMeaning", "Compliment",
      "QuestionWhat", "QuestionHow", "QuestionWhy", "QuestionWhen",
      "QuestionWhere", "QuestionWho", "GenericQuestion", "Fallback">>

\* the predicate of each rule, on the normalized utterance
RuleMatches(intent, s) ==
    CASE intent = "Greeting" ->
            \E w \in {"hello", "hi", "hey", "greetings", "sup"} : contains(s, w)
      [] intent = "Identity" ->
            \E w \in {"who are you", "your name", "what are you"} : contains(s, w)
      [] intent = "Time" -> contains(s, "time") /\ ~ contains(s, "sometimes")
      [] intent = "Date" ->
            \E w \in {"date", "today", "what day"} : contains(s, w)
      [] intent = "Wellbeing" ->
            \E w \in {"how are you", "how do you feel"} : contains(s, w)
      [] intent = "Weather" ->
            \E w \in {"weather", "temperature"} : contains(s, w)
      [] intent = "Joke" ->
            \E w \in {"joke", "funny", "make me laugh"} : contains(s, w)
      [] intent = "Help" ->
            \E w \in {"help", "what can you do", "capabilities"} : contains(s, w)
      [] intent = "Thanks" ->
            \E w \in {"thank", "appreciate"} : contains(s, w)
      [] intent = "Farewell" ->
            \E w \in {"bye", "goodbye", "quit", "exit", "see you", "farewell"} :
                contains(s, w)
      [] intent = "LifeMeaning" ->
            contains(s, "meaning of life")
                \/ (contains(s, "life") /\ contains(s, "meaning"))
      [] intent = "Compliment" ->
            \E w \in {"smart", "intelligent", "clever", "awesome", "great",
                      "amazing"} : contains(s, w)
      [] intent = "QuestionWhat" -> startswith(s, "what")
      [] intent = "QuestionHow" -> startswith(s, "how")
      [] intent = "QuestionWhy" -> startswith(s, "why")
      [] intent = "QuestionWhen" -> startswith(s, "when")
      [] intent = "QuestionWhere" -> startswith(s, "where")
      [] intent = "QuestionWho" -> startswith(s, "who")
      [] intent = "GenericQuestion" -> endswith(s, "?")
      [] OTHER -> TRUE

FirstMatch(s) ==
    RuleOrder[CHOOSE i \in 1..Len(RuleOrder) :
                /\ RuleMatches(RuleOrder[i], s)
                /\ \A j \in 1..(i - 1) : ~ RuleMatches(RuleOrder[j], s)]

\* C9: a classified utterance gets exactly one intent, that of the first
\* rule of the section 4.1 order whose predicate matches; so an utterance
\* with "how are you" that matches none of rules 1-4 is Wellbeing, never the
\* "how" question prefix.
C9_FirstMatch ==
    CascadeRan =>
        /\ response.intent \in Intents
        /\ response.intent = FirstMatch(strip(lower(request.text)))
        /\ ( /\ Mentions(request.text, "how are you")
             /\ \A i \in 1..4 :
                    ~ RuleMatches(RuleOrder[i], strip(lower(request.text))) )
              => response.intent = "Wellbeing"

C9_Witness ==
    /\ CascadeRan
    /\ request.text = "How are you doing"
    /\ response.intent = "Wellbeing"
    /\ response.reply \in Range(WellbeingReplies)

(***************************************************************************)
(* The conversation store on its own: Append and Reset                     *)
(***************************************************************************)

\* the most appends a run makes between two resets
MaxAppends == 12

StoreTurns == {Turn("User", "hello"), Turn("Agent", CompletionText)}

InitStore ==
    /\ call_conversations = <<>>
    /\ call_state = <<>>
    /\ conversation_history = <<>>
    /\ appended = <<>>
    /\ ai_available = TRUE
    /\ request = NoRequest
    /\ response = NoAnswer
    /\ NoCalls

StoreAppend(turn) ==
    /\ Len(appended) < MaxAppends
    /\ conversation_history' = HistoryAppend(conversation_history, turn)
    /\ appended' = Append(appended, turn)
    /\ UNCHANGED <<call_conversations, call_state, ai_available, request,
                   response, telephony>>

StoreReset ==
    /\ conversation_history' = HistoryReset
    /\ appended' = <<>>
    /\ UNCHANGED <<call_conversations, call_state, ai_available, request,
                   response, telephony>>

NextStore ==
    \/ \E turn \in StoreTurns : StoreAppend(turn)
    \/ StoreReset

SpecStore == InitStore /\ [][NextStore]_vars

\* C3: after any sequence of appends and resets the history holds at most 10
\* turns; after more than 10 appends since the last reset it holds exactly
\* the last 10 turns appended, in the order they were appended (and all of
\* them while there are at most 10).
C3_BoundedHistory ==
    /\ Len(conversation_history) <= 10
    /\ Len(appended) > 10 =>
          conversation_history =
              SubSeq(appended, Len(appended) - 9, Len(appended))
    /\ Len(appended) <= 10 => conversation_history = appended

C3_Witness ==
    /\ Len(appended) = 12
    /\ Len(conversation_history) = 10
    /\ appended[1] # appended[3]
    /\ conversation_history[1] = appended[3]
    /\ conversation_history[10] = appended[12]

(***************************************************************************)
(* main.py: the Twilio webhooks and the chat endpoint                      *)
(***************************************************************************)

\* the most turns a run records for one call
MaxTurns == 1

\* the most turns of shared history a run of calls builds up between resets
MaxShared == 1

\* the most handlers a run has suspended at their await at a time
MaxAwaiting == 1

\* "unknown" is the id form_data.get("CallSid", "unknown") gives a request
\* that carries none
CallIds == {"CA123", "unknown"}

\* what callers say on the phone and type into the chat
CallUtterances == {"", "Goodbye", "who are you"}

\* what the web endpoints are sent as text
WebTexts == CallUtterances \cup {" "}

\* the texts sent to the web endpoints while handlers are suspended: empty,
\* a blank and a form feed, a question
EndpointTexts == {"", " \f", "who are you"}

\* Respond on everything a caller says and a client sends
CallResults ==
    [u \in WebTexts \cup EndpointTexts, available \in BOOLEAN |->
        RespondResults(u, available)]

Say(text) == [verb |-> "Say", text |-> text]
Gather == [verb |-> "Gather", input |-> "speech", action |-> "/twilio/gather"]
Redirect(url) == [verb |-> "Redirect", url |-> url]
Hangup == [verb |-> "Hangup"]

\* what a TwiML document asks the call to do: wait for speech, or end
TwimlState(twiml) ==
    IF \E i \in DOMAIN twiml : twiml[i].verb = "Gather" THEN "Gathering"
    ELSE IF \E i \in DOMAIN twiml : twiml[i].verb = "Hangup" THEN "Ended"
    ELSE "None"

SetCallState(call_sid, twiml) ==
    [c \in DOMAIN call_state \cup {call_sid} |->
        IF c = call_sid THEN TwimlState(twiml) ELSE call_state[c]]

\* line 322
is_goodbye(speech_result) ==
    any_in({"bye", "goodbye", "quit", "exit", "hang up"}, lower(speech_result))

\* lines 270-291
VoiceTwiml ==
    <<Say("Hello! Welcome to XCER AI Agent. How can I help you today?"),
      Gather,
      Say("I didn't hear anything. Please try again."),
      Redirect("/twilio/voice")>>

\* the answer to gathered speech with the hangup of the goodbye branch left out
GatherTwiml_no_hangup(speech_result, ai_response) ==
    <<Say(IF is_goodbye(speech_result)
          THEN "Thank you for calling XCER AI. Goodbye!"
          ELSE ai_response),
      Gather,
      Say("Is there anything else I can help with?"),
      Redirect("/twilio/voice")>>

\* the answer to gathered speech that says the caller's words back in place
\* of the reply
GatherTwiml_echo(speech_result, ai_response) ==
    IF is_goodbye(speech_result)
    THEN <<Say("Thank you for calling XCER AI. Goodbye!"), Hangup>>
    ELSE <<Say(speech_result),
           Gather,
           Say("Is there anything else I can help with?"),
           Redirect("/twilio/voice")>>

\* lines 319-344
GatherTwiml(speech_result, ai_response) ==
    IF is_goodbye(speech_result)
    THEN <<Say("Thank you for calling XCER AI. Goodbye!"), Hangup>>
    ELSE <<Say(ai_response),
           Gather,
           Say("Is there anything else I can help with?"),
           Redirect("/twilio/voice")>>

\* lines 394-413
OutboundTwiml ==
    <<Say("Hello! This is XCER AI Agent calling. How can I assist you today?"),
      Gather,
      Say("I didn't hear a response. Goodbye!"),
      Hangup>>

\* the verbs after the Gather of a TwiML document: what Twilio runs when the
\* caller says nothing before the Gather times out
AfterGather(twiml) ==
    IF \E i \in DOMAIN twiml : twiml[i].verb = "Gather"
    THEN LET g == CHOOSE i \in DOMAIN twiml : twiml[i].verb = "Gather"
         IN  SubSeq(twiml, g + 1, Len(twiml))
    ELSE <<>>

SetOnSilence(call_sid, twiml) ==
    [c \in DOMAIN on_silence \cup {call_sid} |->
        IF c = call_sid THEN AfterGather(twiml) ELSE on_silence[c]]

SetCallOrigin(call_sid, origin) ==
    [c \in DOMAIN call_origin \cup {call_sid} |->
        IF c = call_sid THEN origin ELSE call_origin[c]]

\* Twilio is following the Redirect of the call's last TwiML
Redirected(call_sid) ==
    call_sid \in DOMAIN call_state /\ call_state[call_sid] = "Redirecting"

\* `not request.text.strip()` of the web endpoints, with the check left out
empty_text_unchecked(text) == FALSE

\* lines 181, 198, 216, 233: `not request.text.strip()`
empty_text(text) == strip(text) = ""

\* the destination numbers POST /twilio/call is asked to ring
ToNumbers == {"", "+15550100"}

\* how twilio_client.calls.create can end: a call with its sid, or an exception
PlaceCallOutcomes ==
    {[sid |-> "CA123", raised |-> ""],
     [sid |-> "", raised |-> "TwilioRestException"]}

\* the answer of POST /twilio/call: `placed` tells whether calls.create was
\* invoked, `call_sid` is the sid handed back ("" when none is)
CallAnswer(status, placed, created) ==
    [status |-> status, twiml |-> <<>>, reply |-> "", intent |-> "None",
     raised |-> created.raised, completion |-> "not invoked",
     placed |-> placed, call_sid |-> created.sid]

NotPlaced == [sid |-> "", raised |-> ""]

\* the answer of POST /interact and POST /speak: `spoken` is what speak() returned
SpokenAnswer(status, out, spoken) ==
    [status |-> status, twiml |-> <<>>, reply |-> out.reply,
     intent |-> out.intent, raised |-> out.raised,
     completion |-> out.completion, spoken |-> spoken]

Init ==
    /\ call_conversations = <<>>
    /\ call_state = <<>>
    /\ conversation_history = <<>>
    /\ appended = <<>>
    /\ ai_available \in BOOLEAN
    /\ request = NoRequest
    /\ response = NoAnswer
    /\ call_origin = <<>>
    /\ on_silence = <<>>
    /\ twilio_configured \in BOOLEAN
    /\ ready = <<>>
    /\ arrived = <<>>
    /\ awaiting = <<>>

\* POST /twilio/voice that starts the session map afresh with the new call
twilio_voice_webhook_clears_all(call_sid) ==
    /\ conversation_history' = HistoryReset
    /\ appended' = <<>>
    /\ call_conversations' =
          [c \in {call_sid} |-> <<>>]
    /\ request' = Request("twilio_voice_webhook", call_sid, "", TRUE)
    /\ response' = Answer(200, VoiceTwiml, NoOutcome)
    /\ call_state' = SetCallState(call_sid, VoiceTwiml)
    /\ on_silence' = SetOnSilence(call_sid, VoiceTwiml)
    /\ call_origin' =
          IF Redirected(call_sid) /\ call_sid \in DOMAIN call_origin
          THEN call_origin
          ELSE SetCallOrigin(call_sid, "inbound")
    /\ UNCHANGED <<ai_available, twilio_configured>>

\* POST /twilio/voice
twilio_voice_webhook(call_sid) ==
    /\ conversation_history' = HistoryReset
    /\ appended' = <<>>
    /\ call_conversations' =
          [c \in DOMAIN call_conversations \cup {call_sid} |->
              IF c = call_sid THEN <<>> ELSE call_conversations[c]]
    /\ request' = Request("twilio_voice_webhook", call_sid, "", TRUE)
    /\ response' = Answer(200, VoiceTwiml, NoOutcome)
    /\ call_state' = SetCallState(call_sid, VoiceTwiml)
    /\ on_silence' = SetOnSilence(call_sid, VoiceTwiml)
    /\ call_origin' =
          IF Redirected(call_sid) /\ call_sid \in DOMAIN call_origin
          THEN call_origin
          ELSE SetCallOrigin(call_sid, "inbound")
    /\ UNCHANGED <<ai_available, twilio_configured>>

\* POST /twilio/gather that puts the new turn in front of the recorded ones
twilio_gather_webhook_prepend(call_sid, speech_result) ==
    /\ \E out \in CallResults[speech_result, ai_available] :
         LET twiml == GatherTwiml(speech_result, out.reply)
         IN  /\ conversation_history' =
                    AppendAll(conversation_history, out.added)
             /\ appended' = appended \o out.added
             /\ call_conversations' =
                    IF call_sid \in DOMAIN call_conversations
                    THEN [call_conversations EXCEPT ![call_sid] =
                            <<[user |-> speech_result,
                               agent |-> out.reply]>> \o @]
                    ELSE call_conversations
             /\ request' =
                    Request("twilio_gather_webhook", call_sid, speech_result, TRUE)
             /\ response' = Answer(200, twiml, out)
             /\ call_state' = SetCallState(call_sid, twiml)
             /\ on_silence' = SetOnSilence(call_sid, twiml)
    /\ UNCHANGED <<ai_available, call_origin, twilio_configured>>

\* POST /twilio/gather with SpeechResult a text field
twilio_gather_webhook(call_sid, speech_result) ==
    /\ \E out \in CallResults[speech_result, ai_available] :
         LET twiml == GatherTwiml(speech_result, out.reply)
         IN  /\ conversation_history' =
                    AppendAll(conversation_history, out.added)
             /\ appended' = appended \o out.added
             /\ call_conversations' =
                    IF call_sid \in DOMAIN call_conversations
                    THEN [call_conversations EXCEPT ![call_sid] =
                            Append(@, [user |-> speech_result,
                                       agent |-> out.reply])]
                    ELSE call_conversations
             /\ request' =
                    Request("twilio_gather_webhook", call_sid, speech_result, TRUE)
             /\ response' = Answer(200, twiml, out)
             /\ call_state' = SetCallState(call_sid, twiml)
             /\ on_silence' = SetOnSilence(call_sid, twiml)
    /\ UNCHANGED <<ai_available, call_origin, twilio_configured>>

\* POST /twilio/gather with SpeechResult an uploaded file: form_data.get hands
\* an UploadFile to get_response, whose user_text.strip() raises
\* AttributeError; nothing in the handler catches it
twilio_gather_webhook_upload(call_sid) ==
    /\ request' = Request("twilio_gather_webhook", call_sid, "", FALSE)
    /\ response' =
          Answer(500, <<>>, Outcome("", "None", "AttributeError", "not invoked", <<>>))
    /\ UNCHANGED <<call_conversations, call_state, conversation_history,
                   appended, ai_available, call_origin, on_silence,
                   twilio_configured>>

\* POST /twilio/outbound with the conversation left as it is
twilio_outbound_webhook_no_reset(call_sid) ==
    /\ request' = Request("twilio_outbound_webhook", call_sid, "", TRUE)
    /\ response' = Answer(200, OutboundTwiml, NoOutcome)
    /\ call_state' = SetCallState(call_sid, OutboundTwiml)
    /\ on_silence' = SetOnSilence(call_sid, OutboundTwiml)
    /\ call_origin' = SetCallOrigin(call_sid, "outbound")
    /\ UNCHANGED <<call_conversations, conversation_history, appended,
                   ai_available, twilio_configured>>

\* POST /twilio/outbound
twilio_outbound_webhook(call_sid) ==
    /\ conversation_history' = HistoryReset
    /\ appended' = <<>>
    /\ request' = Request("twilio_outbound_webhook", call_sid, "", TRUE)
    /\ response' = Answer(200, OutboundTwiml, NoOutcome)
    /\ call_state' = SetCallState(call_sid, OutboundTwiml)
    /\ on_silence' = SetOnSilence(call_sid, OutboundTwiml)
    /\ call_origin' = SetCallOrigin(call_sid, "outbound")
    /\ UNCHANGED <<call_conversations, ai_available, twilio_configured>>

\* the caller says nothing until the Gather of the call's last TwiML times
\* out: Twilio says the Say after the Gather and runs the verb that ends the
\* document, a Hangup or a Redirect whose request is the next step of the call
gather_timeout(call_sid) ==
    /\ call_sid \in DOMAIN call_state
    /\ call_state[call_sid] = "Gathering"
    /\ LET rest == on_silence[call_sid]
       IN  call_state' =
              [call_state EXCEPT ![call_sid] =
                  IF rest[Len(rest)].verb = "Redirect"
                  THEN "Redirecting" ELSE "Ended"]
    /\ request' = Request("gather_timeout", call_sid, "", TRUE)
    /\ response' = NoAnswer
    /\ UNCHANGED <<call_conversations, conversation_history, appended,
                   ai_available, call_origin, on_silence, twilio_configured>>

\* POST /twilio/call without the check of the configuration
make_outbound_call_unconfigured(to_number, created) ==
    /\ request' = Request("make_outbound_call", "", to_number, TRUE)
    /\ response' =
          IF to_number = "" THEN CallAnswer(400, FALSE, NotPlaced)
          ELSE IF created.raised # "" THEN CallAnswer(500, TRUE, created)
          ELSE CallAnswer(200, TRUE, created)
    /\ UNCHANGED <<call_conversations, call_state, conversation_history,
                   appended, ai_available, call_origin, on_silence,
                   twilio_configured>>

\* POST /twilio/call
make_outbound_call(to_number, created) ==
    /\ request' = Request("make_outbound_call", "", to_number, TRUE)
    /\ response' =
          IF ~twilio_configured THEN CallAnswer(503, FALSE, NotPlaced)
          ELSE IF to_number = "" THEN CallAnswer(400, FALSE, NotPlaced)
          ELSE IF created.raised # "" THEN CallAnswer(500, TRUE, created)
          ELSE CallAnswer(200, TRUE, created)
    /\ UNCHANGED <<call_conversations, call_state, conversation_history,
                   appended, ai_available, call_origin, on_silence,
                   twilio_configured>>

\* POST /chat
chat_endpoint(text) ==
    /\ request' = Request("chat_endpoint", "", text, TRUE)
    /\ IF empty_text(text)
       THEN /\ response' = Answer(400, <<>>, NoOutcome)
            /\ UNCHANGED <<conversation_history, appended>>
       ELSE \E out \in CallResults[text, ai_available] :
              /\ response' = Answer(200, <<>>, out)
              /\ conversation_history' =
                    AppendAll(conversation_history, out.added)
              /\ appended' = appended \o out.added
    /\ UNCHANGED <<call_conversations, call_state, ai_available, call_origin,
                   on_silence, twilio_configured>>

\* POST /process
process_input(text) ==
    /\ request' = Request("process_input", "", text, TRUE)
    /\ IF empty_text(text)
       THEN /\ response' = Answer(400, <<>>, NoOutcome)
            /\ UNCHANGED <<conversation_history, appended>>
       ELSE \E out \in CallResults[text, ai_available] :
              /\ response' = Answer(200, <<>>, out)
              /\ conversation_history' =
                    AppendAll(conversation_history, out.added)
              /\ appended' = appended \o out.added
    /\ UNCHANGED <<call_conversations, call_state, ai_available, call_origin,
                   on_silence, twilio_configured>>

\* a handler that gave way to the event loop at its await of speak(), with
\* what it had computed by then
Suspended(req, out) == [req |-> req, out |-> out]

\* the suspended handlers but the k-th
Without(queue, k) == SubSeq(queue, 1, k - 1) \o SubSeq(queue, k + 1, Len(queue))

\* POST /interact up to `await loop.run_in_executor(executor, speak, reply)`:
\* an empty text is answered at once; otherwise get_response runs and the
\* handler gives way with no answer sent
interact_endpoint(text) ==
    /\ request' = Request("interact_endpoint", "", text, TRUE)
    /\ IF empty_text(text)
       THEN /\ response' = Answer(400, <<>>, NoOutcome)
            /\ UNCHANGED <<conversation_history, appended, awaiting>>
       ELSE \E out \in CallResults[text, ai_available] :
              /\ response' = NoAnswer
              /\ conversation_history' =
                    AppendAll(conversation_history, out.added)
              /\ appended' = appended \o out.added
              /\ awaiting' = Append(awaiting, Suspended(request', out))
    /\ UNCHANGED <<call_conversations, call_state, ai_available, call_origin,
                   on_silence, twilio_configured>>

\* POST /speak up to `await loop.run_in_executor(executor, speak, request.text)`
speak_endpoint(text) ==
    /\ request' = Request("speak_endpoint", "", text, TRUE)
    /\ IF empty_text(text)
       THEN /\ response' = Answer(400, <<>>, NoOutcome)
            /\ UNCHANGED awaiting
       ELSE /\ response' = NoAnswer
            /\ awaiting' = Append(awaiting, Suspended(request', NoOutcome))
    /\ UNCHANGED <<call_conversations, call_state, conversation_history,
                   appended, ai_available, call_origin, on_silence,
                   twilio_configured>>

\* POST /interact from its await on: speak() has returned `spoken` in a thread
\* of the executor, which has five, and the k-th suspended handler answers
interact_endpoint_returns(k, spoken) ==
    /\ k \in DOMAIN awaiting
    /\ awaiting[k].req.handler = "interact_endpoint"
    /\ awaiting' = Without(awaiting, k)
    /\ request' = awaiting[k].req
    /\ response' = SpokenAnswer(200, awaiting[k].out, spoken)
    /\ UNCHANGED <<call_conversations, call_state, conversation_history,
                   appended, ai_available, call_origin, on_silence,
                   twilio_configured>>

\* POST /speak from its await on
speak_endpoint_returns(k, spoken) ==
    /\ k \in DOMAIN awaiting
    /\ awaiting[k].req.handler = "speak_endpoint"
    /\ awaiting' = Without(awaiting, k)
    /\ request' = awaiting[k].req
    /\ response' = SpokenAnswer(200, NoOutcome, spoken)
    /\ UNCHANGED <<call_conversations, call_state, conversation_history,
                   appended, ai_available, call_origin, on_silence,
                   twilio_configured>>

\* the call the webhooks are followed through
Callers == {"CA123"}

\* the bounds of a run: the shared history and the turns of the call may grow
HistoryMayGrow == Len(conversation_history) < MaxShared

\* another handler may give way at its await
MayAwait == Len(awaiting) < MaxAwaiting

TurnsMayGrow(call_sid) ==
    call_sid \in DOMAIN call_conversations
       => Len(call_conversations[call_sid]) < MaxTurns

Next ==
    \/ \E call_sid \in Callers :
          twilio_voice_webhook(call_sid) /\ UNCHANGED <<ready, arrived, awaiting>>
    \/ \E call_sid \in Callers, speech_result \in WebTexts :
          /\ HistoryMayGrow
          /\ TurnsMayGrow(call_sid)
          /\ twilio_gather_webhook(call_sid, speech_result)
          /\ UNCHANGED <<ready, arrived, awaiting>>
    \/ \E call_sid \in Callers :
          twilio_gather_webhook_upload(call_sid) /\ UNCHANGED <<ready, arrived, awaiting>>
    \/ \E call_sid \in Callers :
          twilio_outbound_webhook(call_sid) /\ UNCHANGED <<ready, arrived, awaiting>>
    \/ \E call_sid \in Callers :
          gather_timeout(call_sid) /\ UNCHANGED <<ready, arrived, awaiting>>
    \/ \E to_number \in ToNumbers, created \in PlaceCallOutcomes :
          make_outbound_call(to_number, created) /\ UNCHANGED <<ready, arrived, awaiting>>
    \/ \E text \in WebTexts :
          /\ empty_text(text) \/ HistoryMayGrow
          /\ chat_endpoint(text)
          /\ UNCHANGED <<ready, arrived, awaiting>>
    \/ \E text \in WebTexts :
          /\ empty_text(text) \/ HistoryMayGrow
          /\ process_input(text)
          /\ UNCHANGED <<ready, arrived, awaiting>>

Spec == Init /\ [][Next]_vars

(***************************************************************************)
(* The web endpoints, two of which give way to the event loop while        *)
(* speak() runs in the executor: interact_endpoint after get_response,     *)
(* speak_endpoint after its check of the text. Other handlers run, for the *)
(* web and for the call, before the suspended ones answer.                 *)
(***************************************************************************)

InitWeb ==
    /\ call_conversations = <<>>
    /\ call_state = <<>>
    /\ conversation_history = <<>>
    /\ appended = <<>>
    /\ ai_available \in BOOLEAN
    /\ request = NoRequest
    /\ response = NoAnswer
    /\ call_origin = <<>>
    /\ on_silence = <<>>
    /\ twilio_configured = FALSE
    /\ ready = <<>>
    /\ arrived = <<>>
    /\ awaiting = <<>>

NextWeb ==
    \/ \E call_sid \in Callers :
          twilio_voice_webhook(call_sid) /\ UNCHANGED <<ready, arrived, awaiting>>
    \/ \E call_sid \in Callers, speech_result \in EndpointTexts :
          /\ HistoryMayGrow
          /\ TurnsMayGrow(call_sid)
          /\ twilio_gather_webhook(call_sid, speech_result)
          /\ UNCHANGED <<ready, arrived, awaiting>>
    \/ \E text \in EndpointTexts :
          /\ empty_text(text) \/ HistoryMayGrow
          /\ chat_endpoint(text)
          /\ UNCHANGED <<ready, arrived, awaiting>>
    \/ \E text \in EndpointTexts :
          /\ empty_text(text) \/ HistoryMayGrow
          /\ process_input(text)
          /\ UNCHANGED <<ready, arrived, awaiting>>
    \/ \E text \in EndpointTexts :
          /\ empty_text(text) \/ (HistoryMayGrow /\ MayAwait)
          /\ interact_endpoint(text)
          /\ UNCHANGED <<ready, arrived>>
    \/ \E text \in EndpointTexts :
          /\ empty_text(text) \/ MayAwait
          /\ speak_endpoint(text)
          /\ UNCHANGED <<ready, arrived>>
    \/ \E k \in DOMAIN awaiting, spoken \in BOOLEAN :
          interact_endpoint_returns(k, spoken) /\ UNCHANGED <<ready, arrived>>
    \/ \E k \in DOMAIN awaiting, spoken \in BOOLEAN :
          speak_endpoint_returns(k, spoken) /\ UNCHANGED <<ready, arrived>>

SpecWeb == InitWeb /\ [][NextWeb]_vars

(***************************************************************************)
(* The handlers on the event loop. A handler is a coroutine: it gives way  *)
(* at an await and nowhere else. twilio_voice_webhook and                  *)
(* twilio_gather_webhook await request.form() in their first statement and *)
(* run the rest in one piece; chat_endpoint has no await. Handlers whose   *)
(* form has arrived wait in the loop's queue and run one after the other.  *)
(***************************************************************************)

\* the most requests a run of the event loop receives
MaxRequests == 3

\* the requests that arrive while others are still waiting
ConcurrentRequests ==
    {Request("twilio_voice_webhook", c, "", TRUE) : c \in CallIds}
    \cup {Request("twilio_gather_webhook", c, u, TRUE) :
             c \in CallIds, u \in {"Goodbye", "who are you"}}
    \cup {Request("chat_endpoint", "", "who are you", TRUE)}

\* the event loop runs the handlers in the order they became ready
Dequeue(queue) == [req |-> Head(queue), rest |-> Tail(queue)]

InitConcurrent ==
    /\ call_conversations = <<>>
    /\ call_state = <<>>
    /\ conversation_history = <<>>
    /\ appended = <<>>
    /\ ai_available \in BOOLEAN
    /\ request = NoRequest
    /\ response = NoAnswer
    /\ call_origin = <<>>
    /\ on_silence = <<>>
    /\ twilio_configured = TRUE
    /\ ready = <<>>
    /\ arrived = <<>>
    /\ awaiting = <<>>

\* the form of a request has arrived: its handler is ready to go on
arrive(req) ==
    /\ Len(arrived) < MaxRequests
    /\ ready' = Append(ready, req)
    /\ arrived' = Append(arrived, req)
    /\ UNCHANGED <<call_conversations, call_state, conversation_history,
                   appended, ai_available, request, response, call_origin,
                   on_silence, twilio_configured, awaiting>>

\* the event loop runs the next ready handler from its await to its return
run_ready ==
    /\ ready # <<>>
    /\ LET next == Dequeue(ready)
       IN  /\ ready' = next.rest
           /\ \/ /\ next.req.handler = "twilio_voice_webhook"
                 /\ twilio_voice_webhook(next.req.call_sid)
              \/ /\ next.req.handler = "twilio_gather_webhook"
                 /\ twilio_gather_webhook(next.req.call_sid, next.req.text)
              \/ /\ next.req.handler = "chat_endpoint"
                 /\ chat_endpoint(next.req.text)
    /\ UNCHANGED <<arrived, awaiting>>

NextConcurrent ==
    \/ \E req \in ConcurrentRequests : arrive(req)
    \/ run_ready

SpecConcurrent == InitConcurrent /\ [][NextConcurrent]_vars

(***************************************************************************)
(* Two calls side by side: the webhooks of main.py for a call with a       *)
(* CallSid and for requests that carry none and are keyed "unknown".       *)
(***************************************************************************)

\* what the callers of the two calls say
TwoCallUtterances == {"Goodbye", "who are you"}

InitCalls ==
    /\ call_conversations = <<>>
    /\ call_state = <<>>
    /\ conversation_history = <<>>
    /\ appended = <<>>
    /\ ai_available \in BOOLEAN
    /\ request = NoRequest
    /\ response = NoAnswer
    /\ call_origin = <<>>
    /\ on_silence = <<>>
    /\ twilio_configured = TRUE
    /\ ready = <<>>
    /\ arrived = <<>>
    /\ awaiting = <<>>

NextCalls ==
    \/ \E call_sid \in CallIds :
          twilio_voice_webhook(call_sid) /\ UNCHANGED <<ready, arrived, awaiting>>
    \/ \E call_sid \in CallIds, speech_result \in TwoCallUtterances :
          /\ HistoryMayGrow
          /\ TurnsMayGrow(call_sid)
          /\ twilio_gather_webhook(call_sid, speech_result)
          /\ UNCHANGED <<ready, arrived, awaiting>>
    \/ \E call_sid \in CallIds :
          twilio_outbound_webhook(call_sid) /\ UNCHANGED <<ready, arrived, awaiting>>
    \/ \E call_sid \in CallIds :
          gather_timeout(call_sid) /\ UNCHANGED <<ready, arrived, awaiting>>

SpecCalls == InitCalls /\ [][NextCalls]_vars

(***************************************************************************)
(* Properties of the call webhooks                                         *)
(***************************************************************************)

TelephonyHandlers ==
    {"twilio_voice_webhook", "twilio_gather_webhook", "twilio_outbound_webhook"}

\* the utterance contains one of the termination keywords
HasTerminationKeyword(u) ==
    \E w \in {"bye", "goodbye", "quit", "exit", "hang up"} : Mentions(u, w)

Verbs(twiml) == {twiml[i].verb : i \in DOMAIN twiml}

\* the step answers gathered speech of call c that carries the text u
GatheredSpeech(c) ==
    /\ request'.handler = "twilio_gather_webhook"
    /\ request'.is_text
    /\ request'.call_sid = c

\* C1: gathered speech with a termination keyword moves the call to Ended,
\* and from then on no event for the same callId puts it back into Gathering
\* or sends it another request for input.
C1_EndedIsTerminal ==
    [][\A c \in CallIds :
          /\ (GatheredSpeech(c) /\ HasTerminationKeyword(request'.text))
                => call_state'[c] = "Ended"
          /\ (c \in DOMAIN call_state /\ call_state[c] = "Ended")
                => /\ call_state'[c] = "Ended"
                   /\ request'.call_sid = c
                         => "Gather" \notin Verbs(response'.twiml)]_vars

\* C2: the greeting of an incoming call followed at once by gathered speech
\* of the same call with a termination keyword is answered with the farewell
\* and a hangup, no request for input and no redirect, and the call is Ended.
C2_GoodbyeAfterGreeting ==
    [][\A c \in CallIds :
          ( /\ request.handler = "twilio_voice_webhook"
            /\ request.call_sid = c
            /\ GatheredSpeech(c)
            /\ HasTerminationKeyword(request'.text) )
          => /\ response'.status = 200
             /\ response'.twiml =
                    <<[verb |-> "Say",
                       text |-> "Thank you for calling XCER AI. Goodbye!"],
                      [verb |-> "Hangup"]>>
             /\ "Gather" \notin Verbs(response'.twiml)
             /\ "Redirect" \notin Verbs(response'.twiml)
             /\ call_state'[c] = "Ended"]_vars

C2_Witness ==
    /\ request = Request("twilio_gather_webhook", "CA123", "Goodbye", TRUE)
    /\ "CA123" \in DOMAIN call_conversations
    /\ Len(call_conversations["CA123"]) = 1
    /\ call_state["CA123"] = "Ended"
    /\ response.twiml[Len(response.twiml)].verb = "Hangup"

\* C10: every telephony webhook event is answered with a TwiML document that
\* tells the call what to do next, also when a step inside the handler fails.
C10_AlwaysInstruction ==
    request.handler \in TelephonyHandlers =>
        /\ response.status = 200
        /\ response.twiml # <<>>
        /\ Verbs(response.twiml) \cap {"Gather", "Redirect", "Hangup"} # {}

(***************************************************************************)
(* Silence: what the verbs after a Gather make of a caller who says nothing *)
(***************************************************************************)

\* the re-prompt main.py puts after the Gather that follows a spoken reply
ReplyPrompt == Say("Is there anything else I can help with?")

Greeting == Say("Hello! Welcome to XCER AI Agent. How can I help you today?")

\* the Gather that followed a spoken reply of call c, a call with a session
\* and a recorded turn, timed out, the re-prompt was said, and this step is
\* the request Twilio's Redirect to /twilio/voice makes for the call
SilenceAfterReply(c) ==
    /\ Redirected(c)
    /\ on_silence[c] = <<ReplyPrompt, Redirect("/twilio/voice")>>
    /\ c \in DOMAIN call_conversations
    /\ call_conversations[c] # <<>>
    /\ request'.handler = "twilio_voice_webhook"
    /\ request'.call_sid = c

\* C11: when no input follows a spoken reply, the call is re-prompted and
\* loops back to requesting input for the same session: the request that
\* continues it does not greet again, and resets neither the turns recorded
\* for the call nor the conversation history.
C11_SilenceKeepsSession ==
    [][\A c \in Callers :
          SilenceAfterReply(c)
          => /\ "Gather" \in Verbs(response'.twiml)
             /\ \A i \in DOMAIN response'.twiml : response'.twiml[i] # Greeting
             /\ call_conversations'[c] = call_conversations[c]
             /\ conversation_history' = conversation_history]_vars

\* the Gather of call c, a call that twilio_outbound_webhook started, times
\* out in this step
OutboundSilence(c) ==
    /\ c \in DOMAIN call_origin
    /\ call_origin[c] = "outbound"
    /\ request'.handler = "gather_timeout"
    /\ request'.call_sid = c

\* C12: in a call started by OnCallAnswered every silence ends the call: the
\* timeout moves it to Ended at once, also after answered turns, and does not
\* lead it to a greeting or to another request for input.
C12_OutboundSilenceEnds ==
    [][\A c \in Callers : OutboundSilence(c) => call_state'[c] = "Ended"]_vars

(***************************************************************************)
(* Sessions and their turns                                                *)
(***************************************************************************)

\* the replies Respond can give to the text
Replies(text) == {out.reply : out \in CallResults[text, ai_available]}

\* C13: in a call started by either webhook, gathered speech without a
\* termination keyword keeps the call in Gathering, is answered through
\* Respond, has its (user, agent) pair appended to the turns of the call's
\* session, and is answered with the reply spoken and then a request for more
\* input.
C13_UtteranceRecorded ==
    [][\A c \in Callers :
          ( /\ c \in DOMAIN call_origin
            /\ GatheredSpeech(c)
            /\ ~HasTerminationKeyword(request'.text) )
          => /\ call_state'[c] = "Gathering"
             /\ response'.status = 200
             /\ response'.reply \in Replies(request'.text)
             /\ Len(response'.twiml) >= 2
             /\ response'.twiml[1] = Say(response'.reply)
             /\ response'.twiml[2].verb = "Gather"
             /\ c \in DOMAIN call_conversations
             /\ call_conversations'[c] =
                   Append(call_conversations[c],
                          [user |-> request'.text, agent |-> response'.reply])]_vars

\* C14: an OnIncomingCall event for a callId that has a session already, the
\* request of the silence loop, greets again, leaves the call in Gathering and
\* leaves the turns recorded for the session as they are.
C14_SessionCreatedOnce ==
    [][\A c \in Callers :
          ( /\ c \in DOMAIN call_conversations
            /\ Redirected(c)
            /\ request'.handler = "twilio_voice_webhook"
            /\ request'.call_sid = c )
          => /\ response'.twiml[1] = Greeting
             /\ call_state'[c] = "Gathering"
             /\ call_conversations'[c] = call_conversations[c]]_vars

\* C17: an entry of the session map is never removed, and every call that
\* made contact through twilio_voice_webhook or twilio_outbound_webhook has
\* an entry under its own callId.
C17_OneEntryPerCall ==
    /\ [](\A c \in DOMAIN call_origin : c \in DOMAIN call_conversations)
    /\ [][DOMAIN call_conversations \subseteq DOMAIN call_conversations']_vars

StartsCall == {"twilio_voice_webhook", "twilio_outbound_webhook"}

\* C16: every new call resets the shared history: right after the webhook
\* that starts a call the history is empty, the history never holds a turn
\* appended before the last reset, and gathered speech that follows the start
\* of its call is answered from an empty history, which then holds turns of
\* that utterance only.
C16_NewCallResets ==
    /\ [](request.handler \in StartsCall => conversation_history = <<>>)
    /\ [](conversation_history = appended)
    /\ [][\A c \in Callers :
            ( /\ request.handler \in StartsCall
              /\ request.call_sid = c
              /\ GatheredSpeech(c) )
            => /\ conversation_history = <<>>
               /\ \A i \in DOMAIN conversation_history' :
                     conversation_history'[i].content
                        \in {request'.text, response'.reply}]_vars

\* a call was answered out of a history with turns, and the webhook of the
\* next call has just run
C16_Witness ==
    /\ request.handler = "twilio_outbound_webhook"
    /\ conversation_history = <<>>
    /\ \E c \in DOMAIN call_conversations :
          \E i \in DOMAIN call_conversations[c] :
             call_conversations[c][i].agent = CompletionText

(***************************************************************************)
(* Empty text, and the outbound call                                       *)
(***************************************************************************)

WebEndpoints ==
    {"process_input", "chat_endpoint", "interact_endpoint", "speak_endpoint"}

\* the request carries a text that is empty or whitespace only
BlankText == request.is_text /\ IsBlank(request.text)

\* C18 as stated: on every entry point that takes a text, the web endpoints
\* and the gathered-speech webhook, an empty or whitespace-only text is
\* answered with the canned reply and not with an error.
C18_EmptyInputCanned ==
    (request.handler \in WebEndpoints \cup {"twilio_gather_webhook"} /\ BlankText)
    => /\ response.status = 200
       /\ response.reply = NoInputReply

\* C18 amended: the gathered-speech webhook answers an empty or
\* whitespace-only text with the canned reply, spoken and followed by a
\* request for input, without invoking the completion; the web endpoints
\* process, chat, interact and speak reject it with status 400, give no reply
\* and leave the session map and the history as they are.
C18_EmptyInputLocal ==
    /\ []((request.handler = "twilio_gather_webhook" /\ BlankText)
            => /\ response.status = 200
               /\ response.reply = NoInputReply
               /\ response.completion = "not invoked"
               /\ response.twiml[1] = Say(NoInputReply)
               /\ response.twiml[2].verb = "Gather")
    /\ []((request.handler \in WebEndpoints /\ BlankText)
            => /\ response.status = 400
               /\ response.reply = "")
    /\ [][(request'.handler \in WebEndpoints /\ IsBlank(request'.text))
            => UNCHANGED <<call_conversations, conversation_history>>]_vars

\* a text of a blank and a form feed was sent to POST /interact while the
\* history had turns and an earlier handler was waiting for speak()
C18_Witness ==
    /\ request = Request("interact_endpoint", "", " \f", TRUE)
    /\ response.status = 400
    /\ conversation_history # <<>>
    /\ awaiting # <<>>

\* C19: POST /twilio/call invokes calls.create only when Twilio is configured
\* and a number is given; without configuration it answers 503 and places no
\* call; when calls.create fails it answers with an error and no call sid; it
\* hands back a call sid only with status 200; and it changes neither the
\* session map nor the history.
C19_OutboundCall ==
    /\ [](request.handler = "make_outbound_call"
            => /\ response.placed <=> (twilio_configured /\ request.text # "")
               /\ ~twilio_configured
                     => (response.status = 503 /\ response.call_sid = "")
               /\ (response.placed /\ response.raised # "")
                     => (response.status = 500 /\ response.call_sid = "")
               /\ response.call_sid # "" <=> response.status = 200)
    /\ [][request'.handler = "make_outbound_call"
            => UNCHANGED <<call_conversations, conversation_history>>]_vars

\* calls.create failed while a session and the history held turns
C19_Witness ==
    /\ request.handler = "make_outbound_call"
    /\ response.placed
    /\ response.status = 500
    /\ conversation_history # <<>>
    /\ \E c \in DOMAIN call_conversations : call_conversations[c] # <<>>

\* the last turn recorded for the call of the request
LastTurn ==
    call_conversations[request.call_sid][Len(call_conversations[request.call_sid])]

\* the request is gathered speech whose pair was recorded
Recorded ==
    /\ request.handler = "twilio_gather_webhook"
    /\ request.is_text
    /\ request.call_sid \in DOMAIN call_conversations

\* C20 as stated: the agent text recorded for gathered speech is the text
\* spoken to the caller in the answer to the same event, also when the
\* utterance has a termination keyword.
C20_RecordedIsSpoken ==
    Recorded => LastTurn.agent = response.twiml[1].text

\* C20 amended: the pair recorded for gathered speech is the utterance and
\* the reply of Respond; that reply is the text spoken to the caller when the
\* utterance has no termination keyword, and with a termination keyword the
\* text spoken is the fixed farewell.
C20_RecordedIsReply ==
    Recorded
    => /\ LastTurn = [user |-> request.text, agent |-> response.reply]
       /\ response.twiml[1].verb = "Say"
       /\ response.twiml[1].text =
             IF HasTerminationKeyword(request.text)
             THEN "Thank you for calling XCER AI. Goodbye!"
             ELSE response.reply

\* a goodbye was recorded with a reply that was not what the caller heard
C20_Witness ==
    /\ Recorded
    /\ HasTerminationKeyword(request.text)
    /\ LastTurn.agent # response.twiml[1].text

(***************************************************************************)
(* Order of the turns under concurrent requests                            *)
(***************************************************************************)

\* the requests whose handlers have run, in the order they arrived
Handled == SubSeq(arrived, 1, Len(arrived) - Len(ready))

\* the greatest member of a set of positions, 0 for the empty set
Latest(at) == IF at = {} THEN 0 ELSE CHOOSE i \in at : \A j \in at : j <= i

After(reqs, n) == SubSeq(reqs, n + 1, Len(reqs))

Texts(reqs) == [i \in DOMAIN reqs |-> reqs[i].text]

\* the place among the handled requests of the last greeting of call c
GreetingIndex(c) ==
    Latest({i \in DOMAIN Handled :
               /\ Handled[i].handler = "twilio_voice_webhook"
               /\ Handled[i].call_sid = c})

\* the place among the handled requests of the last reset of the history
ResetIndex ==
    Latest({i \in DOMAIN Handled : Handled[i].handler = "twilio_voice_webhook"})

\* the utterances gathered for call c since its session was last created, in
\* the order they arrived
GatheredSince(c) ==
    LET IsGathered(r) ==
            r.handler = "twilio_gather_webhook" /\ r.call_sid = c
    IN  Texts(SelectSeq(After(Handled, GreetingIndex(c)), IsGathered))

\* the texts Respond was given since the history was last reset
RespondedSince ==
    LET Responds(r) == r.handler \in {"twilio_gather_webhook", "chat_endpoint"}
    IN  Texts(SelectSeq(After(Handled, ResetIndex), Responds))

\* the contents of the user turns of the shared history
UserTurns ==
    LET IsUserTurn(t) == t.role = "User"
        turns == SelectSeq(conversation_history, IsUserTurn)
    IN  [i \in DOMAIN turns |-> turns[i].content]

\* C15: whatever the interleaving of arrivals and handler runs, the turns of
\* a session are the turns of the requests handled for it since it was
\* created or reset, each once and whole, in the order the requests arrived:
\* the turns of a call are the utterances gathered for it with a reply of
\* Respond each, and the user turns of the shared history are the texts
\* Respond was given.
C15_ArrivalOrder ==
    /\ \A c \in CallIds :
          IF GreetingIndex(c) = 0
          THEN c \notin DOMAIN call_conversations
          ELSE /\ c \in DOMAIN call_conversations
               /\ [i \in DOMAIN call_conversations[c] |->
                      call_conversations[c][i].user] = GatheredSince(c)
               /\ \A i \in DOMAIN call_conversations[c] :
                     call_conversations[c][i].agent
                        \in Replies(call_conversations[c][i].user)
    /\ UserTurns = IF ai_available THEN RespondedSince ELSE <<>>

\* two utterances of one call arrived after its greeting and both were
\* recorded, the first to arrive first
C15_Witness ==
    /\ Len(arrived) = 3
    /\ ready = <<>>
    /\ arrived[1] = Request("twilio_voice_webhook", "CA123", "", TRUE)
    /\ arrived[2] = Request("twilio_gather_webhook", "CA123", "who are you", TRUE)
    /\ arrived[3] = Request("twilio_gather_webhook", "CA123", "Goodbye", TRUE)
    /\ Len(call_conversations["CA123"]) = 2
    /\ call_conversations["CA123"][1].user = "who are you"
    /\ call_conversations["CA123"][2].user = "Goodbye"

(***************************************************************************)
(* Isolation of the calls' turns                                           *)
(***************************************************************************)

\* the step is an event of a call other than c: a webhook request under
\* another CallSid, "unknown" for a request that carries none, or the timeout
\* of another call's Gather
EventOfOtherCall(c) ==
    /\ request'.handler \in TelephonyHandlers \cup {"gather_timeout"}
    /\ request'.call_sid # c

\* C21: an event of one call neither adds, removes nor changes the turns
\* recorded under the callId of another call, nor creates or drops its
\* session; this holds as well between a call with a CallSid and the events
\* without one, which are keyed "unknown".
C21_PerCallIsolation ==
    [][\A c \in CallIds :
          EventOfOtherCall(c)
          => IF c \in DOMAIN call_conversations
             THEN /\ c \in DOMAIN call_conversations'
                  /\ call_conversations'[c] = call_conversations[c]
             ELSE c \notin DOMAIN call_conversations']_vars

\* speech without a CallSid was recorded under "unknown" while the call
\* CA123 had a turn of its own, which is still there
C21_Witness ==
    /\ request.handler = "twilio_gather_webhook"
    /\ request.call_sid = "unknown"
    /\ DOMAIN call_conversations = {"CA123", "unknown"}
    /\ Len(call_conversations["unknown"]) = 1
    /\ call_conversations["unknown"][1].user = request.text
    /\ Len(call_conversations["CA123"]) = 1
    /\ call_conversations["CA123"][1].user # request.text

====
